---- MODULE Spec2Model ----
(***************************************************************************)
(* Model of msfx::util::json (src/src/msfx/util/json.rs): the Entry value  *)
(* model, its serde Deserialize (type inference) and Serialize (canonical  *)
(* encoding) implementations, and the JSON container.                      *)
(*                                                                         *)
(* Text is a sequence of one-character strings.  A wire document is the    *)
(* serde_json::Value tree the external parser/printer exchanges with this  *)
(* code: [t |-> "null" | "bool" | "number" | "string" | "array" |          *)
(* "object", v |-> payload]; wire objects are functions from keys to wire  *)
(* values, so member order and duplicate keys are not represented.         *)
(***************************************************************************)
EXTENDS Integers, Sequences, FiniteSets, TLC

VARIABLES entries, wire, op, ret, result, hist

vars == <<entries, wire, op, ret, result, hist>>

\* A tagged value: Entry variants and serde_json::Value variants alike.
Tagged(tag, payload) == [t |-> tag, v |-> payload]

(***************************************************************************)
(* Bounds of the model.                                                    *)
(***************************************************************************)
\* Longest byte sequence among the Binary values tried.
MaxBinLen == 3
\* Deepest nesting of Objects among the values and documents tried.
MaxDepth == 2
\* Most serialize/deserialize calls in one round-trip run.
MaxSteps == 6

(***************************************************************************)
(* Characters and numbers.                                                 *)
(***************************************************************************)
DigitChars == <<"0", "1", "2", "3", "4", "5", "6", "7", "8", "9">>

IsDigit(c) == \E i \in 1..10 : DigitChars[i] = c

DigitVal(c) == (CHOOSE i \in 1..10 : DigitChars[i] = c) - 1

RECURSIVE NatToText(_)
NatToText(n) ==
    IF n < 10 THEN <<DigitChars[n + 1]>>
    ELSE NatToText(n \div 10) \o <<DigitChars[(n % 10) + 1]>>

RECURSIVE ZeroPad(_, _)
ZeroPad(s, width) == IF Len(s) >= width THEN s ELSE ZeroPad(<<"0">> \o s, width)

RECURSIVE TextToNat(_)
TextToNat(s) ==
    IF Len(s) = 0 THEN 0
    ELSE 10 * TextToNat(SubSeq(s, 1, Len(s) - 1)) + DigitVal(s[Len(s)])

RECURSIVE Pow10(_)
Pow10(n) == IF n = 0 THEN 1 ELSE 10 * Pow10(n - 1)

\* Number of leading characters of s that are decimal digits, at most max.
RECURSIVE DigitRun(_, _)
DigitRun(s, max) ==
    IF max = 0 \/ Len(s) = 0 \/ ~IsDigit(s[1]) THEN 0
    ELSE 1 + DigitRun(Tail(s), max - 1)

RECURSIVE TrimStart(_)
TrimStart(s) == IF Len(s) > 0 /\ s[1] = " " THEN TrimStart(Tail(s)) ELSE s

Drop(s, n) == SubSeq(s, n + 1, Len(s))

Take(s, n) == SubSeq(s, 1, n)

(***************************************************************************)
(* base64::engine::general_purpose::STANDARD: the standard alphabet,       *)
(* padding written on encode and required in canonical form on decode,     *)
(* non-zero trailing bits rejected.                                        *)
(***************************************************************************)
B64Alphabet ==
    <<"A", "B", "C", "D", "E", "F", "G", "H", "I", "J", "K", "L", "M",
      "N", "O", "P", "Q", "R", "S", "T", "U", "V", "W", "X", "Y", "Z",
      "a", "b", "c", "d", "e", "f", "g", "h", "i", "j", "k", "l", "m",
      "n", "o", "p", "q", "r", "s", "t", "u", "v", "w", "x", "y", "z",
      "0", "1", "2", "3", "4", "5", "6", "7", "8", "9", "+", "/">>

IsB64Char(c) == \E i \in 1..64 : B64Alphabet[i] = c

B64Val(c) == (CHOOSE i \in 1..64 : B64Alphabet[i] = c) - 1

B64Sym(n) == B64Alphabet[n + 1]

RECURSIVE STANDARD_encode(_)
STANDARD_encode(data) ==
    IF Len(data) = 0 THEN <<>>
    ELSE IF Len(data) = 1 THEN
        <<B64Sym(data[1] \div 4), B64Sym((data[1] % 4) * 16), "=", "=">>
    ELSE IF Len(data) = 2 THEN
        <<B64Sym(data[1] \div 4),
          B64Sym((data[1] % 4) * 16 + data[2] \div 16),
          B64Sym((data[2] % 16) * 4), "=">>
    ELSE
        <<B64Sym(data[1] \div 4),
          B64Sym((data[1] % 4) * 16 + data[2] \div 16),
          B64Sym((data[2] % 16) * 4 + data[3] \div 64),
          B64Sym(data[3] % 64)>> \o STANDARD_encode(Drop(data, 3))

\* The bytes of one complete quad of alphabet characters.
QuadBytes(q) ==
    <<B64Val(q[1]) * 4 + B64Val(q[2]) \div 16,
      (B64Val(q[2]) % 16) * 16 + B64Val(q[3]) \div 4,
      (B64Val(q[3]) % 4) * 64 + B64Val(q[4])>>

\* Decoding proper: out holds the bytes of the quads already read.
RECURSIVE DecodeFrom(_, _)
DecodeFrom(s, out) ==
    IF Len(s) = 0 THEN [ok |-> TRUE, val |-> out]
    ELSE IF Len(s) < 4 THEN [ok |-> FALSE]
    ELSE IF ~(IsB64Char(s[1]) /\ IsB64Char(s[2])) THEN [ok |-> FALSE]
    ELSE IF Len(s) = 4 /\ s[3] = "=" /\ s[4] = "=" THEN
        IF B64Val(s[2]) % 16 = 0
        THEN [ok |-> TRUE, val |-> out \o <<B64Val(s[1]) * 4 + B64Val(s[2]) \div 16>>]
        ELSE [ok |-> FALSE]
    ELSE IF ~IsB64Char(s[3]) THEN [ok |-> FALSE]
    ELSE IF Len(s) = 4 /\ s[4] = "=" THEN
        IF B64Val(s[3]) % 4 = 0
        THEN [ok |-> TRUE,
              val |-> out \o <<B64Val(s[1]) * 4 + B64Val(s[2]) \div 16,
                              (B64Val(s[2]) % 16) * 16 + B64Val(s[3]) \div 4>>]
        ELSE [ok |-> FALSE]
    ELSE IF ~IsB64Char(s[4]) THEN [ok |-> FALSE]
    ELSE DecodeFrom(Drop(s, 4), out \o QuadBytes(Take(s, 4)))

\* STANDARD.decode(s)
STANDARD_decode(s) == DecodeFrom(s, <<>>)

(***************************************************************************)
(* chrono.  NaiveDate is [y, m, d]; NaiveTime is [h, mi, s, nano] with a   *)
(* leap second held as s = 59, nano >= NanosPerSec; DateTime<Utc> is       *)
(* [date, time] in UTC.                                                    *)
(***************************************************************************)
NanosPerSec == 1000000000

IsLeapYear(y) == (y % 4 = 0 /\ y % 100 # 0) \/ y % 400 = 0

DaysInMonth(y, m) ==
    IF m = 2 THEN (IF IsLeapYear(y) THEN 29 ELSE 28)
    ELSE IF m \in {4, 6, 9, 11} THEN 30 ELSE 31

ValidDate(y, m, d) == m \in 1..12 /\ d >= 1 /\ d <= DaysInMonth(y, m)

\* scan::number(s, 1, max): between one and max leading digits.
ScanNumber(s, max) ==
    LET n == DigitRun(s, max)
    IN  IF n = 0 THEN [ok |-> FALSE]
        ELSE [ok |-> TRUE, val |-> TextToNat(Take(s, n)), rest |-> Drop(s, n)]

\* scan::number(s, n, n): exactly n leading digits.
ScanFixed(s, n) ==
    IF DigitRun(s, n) = n
    THEN [ok |-> TRUE, val |-> TextToNat(Take(s, n)), rest |-> Drop(s, n)]
    ELSE [ok |-> FALSE]

\* A Numeric item of a strftime format: leading whitespace is skipped; a
\* signed item takes an explicit sign and then any number of digits.
ScanNumeric(s0, width, signed) ==
    LET s == TrimStart(s0)
    IN  IF signed /\ Len(s) > 0 /\ s[1] = "-" THEN
            LET r == ScanNumber(Tail(s), Len(s))
            IN  IF r.ok THEN [ok |-> TRUE, val |-> 0 - r.val, rest |-> r.rest]
                ELSE [ok |-> FALSE]
        ELSE IF signed /\ Len(s) > 0 /\ s[1] = "+" THEN ScanNumber(Tail(s), Len(s))
        ELSE ScanNumber(s, width)

\* scan::nanosecond: one or more digits, the first nine scaled to nanoseconds.
ScanNanosecond(s) ==
    LET n == DigitRun(s, Len(s))
        used == IF n > 9 THEN 9 ELSE n
    IN  IF n = 0 THEN [ok |-> FALSE]
        ELSE [ok |-> TRUE, val |-> TextToNat(Take(s, used)) * Pow10(9 - used),
              rest |-> Drop(s, n)]

\* An optional fraction of a second: a point and digits, or nothing (zero).
ScanFraction(s) ==
    IF Len(s) > 0 /\ s[1] = "." THEN ScanNanosecond(Tail(s))
    ELSE [ok |-> TRUE, val |-> 0, rest |-> s]

\* scan::timezone_offset with Z allowed: Z, z or a sign, hh, a colon and mm;
\* the value is the offset in minutes, east positive.
ScanOffset(s) ==
    IF Len(s) = 0 THEN [ok |-> FALSE]
    ELSE IF s[1] \in {"Z", "z"} THEN [ok |-> TRUE, val |-> 0, rest |-> Tail(s)]
    ELSE IF s[1] \notin {"+", "-"} \/ Len(s) < 6 THEN [ok |-> FALSE]
    ELSE IF DigitRun(Drop(s, 1), 2) # 2 \/ s[4] # ":" \/ DigitRun(Drop(s, 4), 2) # 2
    THEN [ok |-> FALSE]
    ELSE
        LET hh == TextToNat(SubSeq(s, 2, 3))
            mm == TextToNat(SubSeq(s, 5, 6))
        IN  IF mm > 59 \/ hh > 23 THEN [ok |-> FALSE]
            ELSE [ok |-> TRUE,
                  val |-> IF s[1] = "-" THEN 0 - (hh * 60 + mm) ELSE hh * 60 + mm,
                  rest |-> Drop(s, 6)]

\* The items a text is parsed against, in order.
Numeric(width, signed) == [kind |-> "numeric", width |-> width, signed |-> signed]
Fixed(width) == [kind |-> "fixed", width |-> width]
Literal(chars) == [kind |-> "literal", chars |-> chars]
Fraction == [kind |-> "fraction"]
Offset == [kind |-> "offset"]

\* One item applied to a parse in progress [ok, rest, vals]: a literal
\* consumes one of its characters, any other item appends the number read.
ParseItem(st, item) ==
    IF ~st.ok THEN st
    ELSE IF item.kind = "literal" THEN
        IF Len(st.rest) > 0 /\ st.rest[1] \in item.chars
        THEN [st EXCEPT !.rest = Tail(st.rest)]
        ELSE [st EXCEPT !.ok = FALSE]
    ELSE
        LET r == IF item.kind = "numeric" THEN ScanNumeric(st.rest, item.width, item.signed)
                 ELSE IF item.kind = "fixed" THEN ScanFixed(st.rest, item.width)
                 ELSE IF item.kind = "fraction" THEN ScanFraction(st.rest)
                 ELSE ScanOffset(st.rest)
        IN  IF r.ok THEN [ok |-> TRUE, rest |-> r.rest, vals |-> Append(st.vals, r.val)]
            ELSE [st EXCEPT !.ok = FALSE]

\* format::parse: every item in turn; text left over is an error.
RECURSIVE ParseItems(_, _)
ParseItems(items, st) ==
    IF Len(items) = 0 THEN [st EXCEPT !.ok = st.ok /\ Len(st.rest) = 0]
    ELSE ParseItems(Tail(items), ParseItem(st, Head(items)))

ParseWith(items, s) == ParseItems(items, [ok |-> TRUE, rest |-> s, vals |-> <<>>])

\* %Y of chrono's formatter: four digits for 0..9999, else sign and digits.
FormatYear(y) ==
    IF y >= 0 /\ y <= 9999 THEN ZeroPad(NatToText(y), 4)
    ELSE IF y < 0 THEN <<"-">> \o ZeroPad(NatToText(0 - y), 4)
    ELSE <<"+">> \o ZeroPad(NatToText(y), 4)

\* date.format("%Y-%m-%d").to_string()
FormatDate(date) ==
    FormatYear(date.y) \o <<"-">> \o ZeroPad(NatToText(date.m), 2)
        \o <<"-">> \o ZeroPad(NatToText(date.d), 2)

\* Parsed::to_naive_date
MakeDate(st) ==
    IF st.ok /\ ValidDate(st.vals[1], st.vals[2], st.vals[3])
    THEN [ok |-> TRUE, val |-> [y |-> st.vals[1], m |-> st.vals[2], d |-> st.vals[3]]]
    ELSE [ok |-> FALSE]

\* NaiveDate::parse_from_str(s, "%Y-%m-%d")
ParseDate(s) ==
    MakeDate(ParseWith(<<Numeric(4, TRUE), Literal({"-"}), Numeric(2, FALSE),
                         Literal({"-"}), Numeric(2, FALSE)>>, s))

\* The seconds field as written: a leap second prints as 60.
ShownSecond(time) == time.s + time.nano \div NanosPerSec

\* time.format("%H:%M:%S").to_string()
FormatTime(time) ==
    ZeroPad(NatToText(time.h), 2) \o <<":">> \o ZeroPad(NatToText(time.mi), 2)
        \o <<":">> \o ZeroPad(NatToText(ShownSecond(time)), 2)

\* Parsed::to_naive_time: second 60 is a leap second.
MakeTime(h, mi, sec, nano) ==
    IF h > 23 \/ mi > 59 \/ sec > 60 THEN [ok |-> FALSE]
    ELSE IF sec = 60
    THEN [ok |-> TRUE, val |-> [h |-> h, mi |-> mi, s |-> 59, nano |-> nano + NanosPerSec]]
    ELSE [ok |-> TRUE, val |-> [h |-> h, mi |-> mi, s |-> sec, nano |-> nano]]

TimeOf(st) ==
    IF st.ok THEN MakeTime(st.vals[1], st.vals[2], st.vals[3], 0) ELSE [ok |-> FALSE]

\* NaiveTime::parse_from_str(s, "%H:%M:%S")
ParseTime(s) ==
    TimeOf(ParseWith(<<Numeric(2, FALSE), Literal({":"}), Numeric(2, FALSE),
                       Literal({":"}), Numeric(2, FALSE)>>, s))

\* The date one day before / after.
PrevDay(date) ==
    IF date.d > 1 THEN [date EXCEPT !.d = date.d - 1]
    ELSE IF date.m > 1
    THEN [y |-> date.y, m |-> date.m - 1, d |-> DaysInMonth(date.y, date.m - 1)]
    ELSE [y |-> date.y - 1, m |-> 12, d |-> 31]

NextDay(date) ==
    IF date.d < DaysInMonth(date.y, date.m) THEN [date EXCEPT !.d = date.d + 1]
    ELSE IF date.m < 12 THEN [y |-> date.y, m |-> date.m + 1, d |-> 1]
    ELSE [y |-> date.y + 1, m |-> 1, d |-> 1]

\* timestamp.with_timezone(&Utc): the local date and time less the offset
\* (in minutes, east positive).
WithTimezoneUtc(date, time, offset) ==
    LET mins == time.h * 60 + time.mi - offset
        day == IF mins < 0 THEN PrevDay(date)
               ELSE IF mins >= 1440 THEN NextDay(date) ELSE date
        m == (mins + 1440) % 1440
    IN  [date |-> day, time |-> [time EXCEPT !.h = m \div 60, !.mi = m % 60]]

\* The fraction of SecondsFormat::AutoSi: none, 3, 6 or 9 digits.
FormatFraction(nano) ==
    LET n == nano % NanosPerSec
    IN  IF n = 0 THEN <<>>
        ELSE IF n % 1000000 = 0 THEN <<".">> \o ZeroPad(NatToText(n \div 1000000), 3)
        ELSE IF n % 1000 = 0 THEN <<".">> \o ZeroPad(NatToText(n \div 1000), 6)
        ELSE <<".">> \o ZeroPad(NatToText(n), 9)

\* timestamp.to_rfc3339() of a DateTime<Utc>
ToRfc3339(ts) ==
    FormatDate(ts.date) \o <<"T">> \o FormatTime(ts.time)
        \o FormatFraction(ts.time.nano) \o <<"+", "0", "0", ":", "0", "0">>

\* The instant of a parsed RFC 3339 text, in UTC:
\* vals = <<year, month, day, hour, minute, second, nanosecond, offset>>.
MakeUtc(date, time, offset) ==
    IF time.ok THEN [ok |-> TRUE, val |-> WithTimezoneUtc(date, time.val, offset)]
    ELSE [ok |-> FALSE]

UtcOf(st) ==
    IF st.ok /\ ValidDate(st.vals[1], st.vals[2], st.vals[3])
    THEN MakeUtc([y |-> st.vals[1], m |-> st.vals[2], d |-> st.vals[3]],
                 MakeTime(st.vals[4], st.vals[5], st.vals[6], st.vals[7]), st.vals[8])
    ELSE [ok |-> FALSE]

\* DateTime::parse_from_rfc3339(s), then with_timezone(&Utc) (json.rs line 55).
ParseRfc3339Utc(s) ==
    UtcOf(ParseWith(<<Fixed(4), Literal({"-"}), Fixed(2), Literal({"-"}), Fixed(2),
                      Literal({"T", "t", " "}), Fixed(2), Literal({":"}), Fixed(2),
                      Literal({":"}), Fixed(2), Fraction, Offset>>, s))

(***************************************************************************)
(* rust_decimal.  A Decimal is [m, scale], the number m / 10^scale.  A     *)
(* wire number is [m, e], the number m * 10^e as serde_json read it.       *)
(***************************************************************************)
\* The largest power of ten a 96-bit mantissa reaches: Decimal::MAX is
\* 79228162514264337593543950335, so 10^29 and above do not fit.
DecimalMaxExp == 28

RECURSIVE NumDigits(_)
NumDigits(n) == IF n < 10 THEN 1 ELSE 1 + NumDigits(n \div 10)

Abs(n) == IF n < 0 THEN 0 - n ELSE n

\* Strip the trailing zeros of a mantissa while the scale is positive.
RECURSIVE Normalize(_, _)
Normalize(m, scale) ==
    IF scale > 0 /\ m % 10 = 0 THEN Normalize(m \div 10, scale - 1)
    ELSE [m |-> m, scale |-> scale]

\* Decimal::try_from(f) for the f64 nearest to m * 10^e (json.rs lines 38-42),
\* for numbers of at most 15 significant digits: a number of 30 or more
\* integer digits does not fit the 96-bit mantissa and is an error, any other
\* keeps its digits with the trailing zeros of the fraction dropped.
DecimalTryFrom(num) ==
    IF num.m = 0 THEN [ok |-> TRUE, val |-> [m |-> 0, scale |-> 0]]
    ELSE IF NumDigits(Abs(num.m)) + num.e > DecimalMaxExp + 1 THEN [ok |-> FALSE]
    ELSE IF num.e >= 0 THEN [ok |-> TRUE, val |-> [m |-> num.m * Pow10(num.e), scale |-> 0]]
    ELSE [ok |-> TRUE, val |-> Normalize(num.m, 0 - num.e)]

\* d.to_string(): sign, integer digits, and scale digits after the point.
DecimalToString(d) ==
    LET digits == ZeroPad(NatToText(Abs(d.m)), d.scale + 1)
        cut == Len(digits) - d.scale
        body == IF d.scale = 0 THEN digits
                ELSE Take(digits, cut) \o <<".">> \o Drop(digits, cut)
    IN  IF d.m < 0 THEN <<"-">> \o body ELSE body

(***************************************************************************)
(* Entry: a value is [t |-> variant, v |-> payload].  The payload of an    *)
(* Object is a function from keys to values (HashMap<String, Entry>).      *)
(***************************************************************************)
Boolean(b) == Tagged("Boolean", b)
Decimal(d) == Tagged("Decimal", d)
Date(d) == Tagged("Date", d)
Time(tm) == Tagged("Time", tm)
Timestamp(ts) == Tagged("Timestamp", ts)
String(s) == Tagged("String", s)
Object(map) == Tagged("Object", map)
Binary(data) == Tagged("Binary", data)

\* serde_json::Value
WNull == Tagged("null", <<>>)
WBool(b) == Tagged("bool", b)
WNumber(m, e) == Tagged("number", [m |-> m, e |-> e])
WString(s) == Tagged("string", s)
WArray == Tagged("array", <<>>)
WObject(map) == Tagged("object", map)

\* Text that is not well-formed wire syntax, and the absence of any text.
Malformed == Tagged("malformed", <<>>)
NoText == Tagged("none", <<>>)

Ok(x) == [ok |-> TRUE, val |-> x]
Err(msg) == [ok |-> FALSE, err |-> msg]

\* The String arm as it was before the Binary variant: no base64 rule.
ClassifyStringNoBinary(s) ==
    LET date == ParseDate(s) IN
    IF date.ok THEN Date(date.val) ELSE
    LET time == ParseTime(s) IN
    IF time.ok THEN Time(time.val) ELSE
    LET timestamp == ParseRfc3339Utc(s) IN
    IF timestamp.ok THEN Timestamp(timestamp.val) ELSE
    String(s)

\* The String arm of Entry::deserialize: the first conversion that succeeds.
ClassifyString(s) ==
    LET binary_data == STANDARD_decode(s) IN
    IF binary_data.ok THEN Binary(binary_data.val) ELSE
    LET date == ParseDate(s) IN
    IF date.ok THEN Date(date.val) ELSE
    LET time == ParseTime(s) IN
    IF time.ok THEN Time(time.val) ELSE
    LET timestamp == ParseRfc3339Utc(s) IN
    IF timestamp.ok THEN Timestamp(timestamp.val) ELSE
    String(s)

\* The Number arm of Entry::deserialize.
ClassifyNumber(num) ==
    LET decimal == DecimalTryFrom(num)
    IN  IF decimal.ok THEN Ok(Decimal(decimal.val)) ELSE Err("Invalid decimal type")

\* A catch-all arm that falls back to an empty String instead of failing.
UnsupportedAsString(value) == Ok(String(<<>>))

\* The catch-all arm of Entry::deserialize: wire null and wire array.
Unsupported(value) == Err("Unsupported JSON type")

\* A collect that keeps the members that classified and drops the others.
CollectDroppingFailures(members) ==
    Ok([k \in {x \in DOMAIN members : members[x].ok} |-> members[k].val])

\* collect::<Result<HashMap<_, _>, _>>(): one failing member fails the whole.
Collect(members) ==
    IF \A k \in DOMAIN members : members[k].ok
    THEN Ok([k \in DOMAIN members |-> members[k].val])
    ELSE Err("member")

\* The Object arm of Entry::deserialize, given its members' results.
ClassifyObject(members) ==
    LET object == Collect(members)
    IN  IF object.ok THEN Ok(Object(object.val)) ELSE object

\* <Entry as Deserialize>::deserialize on an already parsed wire value.
RECURSIVE Entry_deserialize(_)
Entry_deserialize(value) ==
    IF value.t = "bool" THEN Ok(Boolean(value.v))
    ELSE IF value.t = "number" THEN ClassifyNumber(value.v)
    ELSE IF value.t = "string" THEN Ok(ClassifyString(value.v))
    ELSE IF value.t = "object" THEN
        ClassifyObject([k \in DOMAIN value.v |-> Entry_deserialize(value.v[k])])
    ELSE Unsupported(value)

\* Arms of Entry::serialize gone wrong: a Decimal written as a wire number,
\* a Date written day before month, a Binary refused.
SerializeDecimalAsNumber(d) == Ok(WNumber(d.m, 0 - d.scale))

SerializeDateDayFirst(date) ==
    Ok(WString(FormatYear(date.y) \o <<"-">> \o ZeroPad(NatToText(date.d), 2)
                  \o <<"-">> \o ZeroPad(NatToText(date.m), 2)))

SerializeBinaryFails(data) == Err("binary data")

\* The arms of Entry::serialize, one per variant.
SerializeBoolean(b) == Ok(WBool(b))
SerializeDecimal(d) == Ok(WString(DecimalToString(d)))
SerializeDate(date) == Ok(WString(FormatDate(date)))
SerializeTime(time) == Ok(WString(FormatTime(time)))
SerializeTimestamp(timestamp) == Ok(WString(ToRfc3339(timestamp)))
SerializeString(s) == Ok(WString(s))
SerializeBinary(data) == Ok(WString(STANDARD_encode(data)))

\* A map serializer that leaves out the members that are empty objects.
SerializeMapSkipEmpty(members) ==
    IF \A k \in DOMAIN members : members[k].ok
    THEN Ok(WObject([k \in {x \in DOMAIN members : members[x].val # WObject(<<>>)} |->
                        members[k].val]))
    ELSE Err("member")

\* map.serialize(serializer): a wire object of the members' encodings.
SerializeMap(members) ==
    IF \A k \in DOMAIN members : members[k].ok
    THEN Ok(WObject([k \in DOMAIN members |-> members[k].val]))
    ELSE Err("member")

\* <Entry as Serialize>::serialize into a wire value.
RECURSIVE Entry_serialize(_)
Entry_serialize(entry) ==
    IF entry.t = "Boolean" THEN SerializeBoolean(entry.v)
    ELSE IF entry.t = "Decimal" THEN SerializeDecimal(entry.v)
    ELSE IF entry.t = "Date" THEN SerializeDate(entry.v)
    ELSE IF entry.t = "Time" THEN SerializeTime(entry.v)
    ELSE IF entry.t = "Timestamp" THEN SerializeTimestamp(entry.v)
    ELSE IF entry.t = "String" THEN SerializeString(entry.v)
    ELSE IF entry.t = "Binary" THEN SerializeBinary(entry.v)
    ELSE SerializeMap([k \in DOMAIN entry.v |-> Entry_serialize(entry.v[k])])

(***************************************************************************)
(* JSON: the container, a HashMap<String, Entry>.                          *)
(***************************************************************************)
EmptyMap == <<>>

\* HashMap::insert
Insert(map, key, entry) ==
    [k \in DOMAIN map \cup {key} |-> IF k = key THEN entry ELSE map[k]]

\* HashMap::remove: the map without the key.
Without(map, key) == [k \in DOMAIN map \ {key} |-> map[k]]

\* Option<Entry>: the empty set is None, {e} is Some(e).
Lookup(map, key) == IF key \in DOMAIN map THEN {map[key]} ELSE {}

JSON_new == EmptyMap

\* JSON::deserialize: serde_json::from_str into HashMap<String, Entry>.
JSON_deserialize(json_str) ==
    IF json_str.t # "object" THEN Err("parse")
    ELSE Collect([k \in DOMAIN json_str.v |-> Entry_deserialize(json_str.v[k])])

\* JSON::serialize: serde_json::to_string(&self.entries).
JSON_serialize(map) ==
    SerializeMap([k \in DOMAIN map |-> Entry_serialize(map[k])])

JSON_get(map, key) == Lookup(map, key)

\* A set that merges an Object into the Object already stored under the key.
JSON_setMerging(map, key, entry) ==
    IF key \in DOMAIN map /\ map[key].t = "Object" /\ entry.t = "Object"
    THEN Insert(map, key,
                Object([k \in DOMAIN map[key].v \cup DOMAIN entry.v |->
                           IF k \in DOMAIN entry.v THEN entry.v[k] ELSE map[key].v[k]]))
    ELSE Insert(map, key, entry)

JSON_set(map, key, entry) == Insert(map, key, entry)

\* A remove that returns the value and leaves the key in the map.
JSON_removeKeepsEntry(map, key) == [map |-> map, ret |-> Lookup(map, key)]

\* JSON::remove: the map left behind and the Option returned.
JSON_remove(map, key) == [map |-> Without(map, key), ret |-> Lookup(map, key)]

(***************************************************************************)
(* The values, containers and documents the operations are tried on.       *)
(***************************************************************************)
Keys == {"a", "b"}

SampleBytes == {0, 72, 105, 255}

SampleBinaries == UNION {[1..n -> SampleBytes] : n \in 0..MaxBinLen}

SampleDates ==
    {dt \in [y : {-1, 1, 2023, 2024, 9999, 10000}, m : {1, 2, 12}, d : {1, 28, 29, 31}] :
        ValidDate(dt.y, dt.m, dt.d)}

SampleTimes ==
    [h : {0, 14, 23}, mi : {0, 30, 59}, s : {0, 59}, nano : {0, 500000000}]
        \cup {[h |-> 23, mi |-> 59, s |-> 59, nano |-> NanosPerSec],
              [h |-> 23, mi |-> 59, s |-> 59, nano |-> NanosPerSec + 250]}

SampleTimestamps ==
    [date : {[y |-> 2024, m |-> 11, d |-> 2], [y |-> 2024, m |-> 2, d |-> 29],
             [y |-> 1, m |-> 1, d |-> 1], [y |-> 10000, m |-> 1, d |-> 1]},
     time : {[h |-> 14, mi |-> 30, s |-> 0, nano |-> 0],
             [h |-> 0, mi |-> 0, s |-> 0, nano |-> 500000000],
             [h |-> 23, mi |-> 59, s |-> 59, nano |-> 123456],
             [h |-> 23, mi |-> 59, s |-> 59, nano |-> NanosPerSec]}]

SampleDecimals ==
    {[m |-> 12345678, scale |-> 4], [m |-> 1234, scale |-> 0], [m |-> 12, scale |-> 0],
     [m |-> -5, scale |-> 0], [m |-> 15, scale |-> 1], [m |-> 150, scale |-> 2],
     [m |-> 0, scale |-> 0], [m |-> -5, scale |-> 3], [m |-> 20240102, scale |-> 0]}

TxtHello == <<"h", "e", "l", "l", "o">>
TxtUser == <<"u", "s", "e", "r", "1", "2", "3">>
TxtNote == <<"U", "p", "d", "a", "t", "e", "d", " ", "n", "o", "t", "e">>
TxtWord == <<"a", "b", "c", "d">>
TxtFile == <<"S", "G", "V", "s", "b", "G", "8", "g", "d", "2", "9", "y", "b", "G", "Q", "=">>
TxtPad2 == <<"S", "A", "=", "=">>
TxtBadBits == <<"S", "B", "=", "=">>
TxtBadPad == <<"S", "A", "=", "=", "a", "b", "c", "d">>
TxtDate == <<"2", "0", "2", "4", "-", "1", "1", "-", "0", "2">>
TxtShortDate == <<"2", "0", "2", "4", "-", "1", "-", "2">>
TxtSpacedDate == <<" ", "2", "0", "2", "4", "-", "1", "1", "-", " ", "2">>
TxtNoDate == <<"2", "0", "2", "3", "-", "0", "2", "-", "2", "9">>
TxtDigits == <<"2", "0", "2", "4", "0", "1", "0", "2">>
TxtTime == <<"1", "4", ":", "3", "0", ":", "0", "0">>
TxtShortTime == <<"1", ":", "2", ":", "3">>
TxtNoTime == <<"2", "4", ":", "0", "0", ":", "0", "0">>
TxtStampZ ==
    <<"2", "0", "2", "4", "-", "1", "1", "-", "0", "2", "T",
      "1", "4", ":", "3", "0", ":", "0", "0", "Z">>
TxtStampOffset ==
    <<"2", "0", "2", "4", "-", "0", "1", "-", "0", "1", "T",
      "0", "0", ":", "3", "0", ":", "0", "0", ".", "5", "+", "0", "2", ":", "0", "0">>
TxtStampNaive ==
    <<"2", "0", "2", "4", "-", "1", "1", "-", "0", "2", "T",
      "1", "4", ":", "3", "0", ":", "0", "0">>
TxtNumber == <<"1", "2", "3", "4", ".", "5", "6", "7", "8">>

SampleTexts ==
    {<<>>, TxtHello, TxtUser, TxtNote, TxtWord, TxtFile, TxtPad2, TxtBadBits, TxtBadPad,
     TxtDate, TxtShortDate, TxtSpacedDate, TxtNoDate, TxtDigits, TxtTime, TxtShortTime,
     TxtNoTime, TxtStampZ, TxtStampOffset, TxtStampNaive, TxtNumber}

\* Every leaf value tried.
LeafValues ==
    {Boolean(b) : b \in BOOLEAN} \cup {Decimal(d) : d \in SampleDecimals}
        \cup {Date(d) : d \in SampleDates} \cup {Time(tm) : tm \in SampleTimes}
        \cup {Timestamp(ts) : ts \in SampleTimestamps}
        \cup {String(s) : s \in SampleTexts} \cup {Binary(b) : b \in SampleBinaries}

\* The leaves placed inside nested Objects: one or two of each variant.
NestLeaves ==
    {Boolean(TRUE), Decimal([m |-> 1234, scale |-> 0]), Decimal([m |-> 15, scale |-> 1]),
     Date([y |-> 2024, m |-> 11, d |-> 2]),
     Time([h |-> 14, mi |-> 30, s |-> 0, nano |-> 500000000]),
     Timestamp([date |-> [y |-> 2024, m |-> 11, d |-> 2],
                time |-> [h |-> 14, mi |-> 30, s |-> 0, nano |-> 0]]),
     String(TxtHello), String(TxtWord), String(TxtShortDate), Binary(<<72, 105>>)}

\* Objects nested at most depth deep: empty, one member, or two members.
RECURSIVE NestedObjects(_)
NestedObjects(depth) ==
    IF depth = 0 THEN {}
    ELSE LET inner == NestLeaves \cup NestedObjects(depth - 1)
         IN  {Object(EmptyMap)} \cup {Object(k :> x) : k \in Keys, x \in inner}
                \cup {Object(("a" :> x) @@ ("b" :> Boolean(FALSE))) : x \in inner}

\* The containers a round trip starts from, as built by new and set.
SampleContainers ==
    {EmptyMap} \cup {"a" :> x : x \in LeafValues \cup NestedObjects(MaxDepth)}
        \cup {("a" :> x) @@ ("b" :> y) : x \in NestLeaves, y \in NestLeaves}

\* Wire numbers: 1234.5678, 1234, 1.50, -5, 0, 1200, and two beyond Decimal.
SampleNumbers ==
    {[m |-> 12345678, e |-> -4], [m |-> 1234, e |-> 0], [m |-> 150, e |-> -2],
     [m |-> -5, e |-> 0], [m |-> 0, e |-> 0], [m |-> 12, e |-> 2],
     [m |-> 1, e |-> 30], [m |-> -25, e |-> 40]}

WireLeaves ==
    {WBool(b) : b \in BOOLEAN} \cup {WNumber(n.m, n.e) : n \in SampleNumbers}
        \cup {WString(s) : s \in SampleTexts} \cup {WNull, WArray}

NestWireLeaves ==
    {WBool(TRUE), WNumber(12345678, -4), WNumber(1, 30), WString(TxtHello),
     WString(TxtWord), WString(TxtDate), WString(TxtTime), WString(TxtStampZ),
     WNull, WArray}

RECURSIVE NestedWire(_)
NestedWire(depth) ==
    IF depth = 0 THEN {}
    ELSE LET inner == NestWireLeaves \cup NestedWire(depth - 1)
         IN  {WObject(EmptyMap)} \cup {WObject(k :> x) : k \in Keys, x \in inner}
                \cup {WObject(("a" :> x) @@ ("b" :> WBool(FALSE))) : x \in inner}

\* The document of src/test/test_json.rs.
TestDocument ==
    WObject(("is_active" :> WBool(TRUE)) @@ ("balance" :> WNumber(12345678, -4))
        @@ ("profile" :> WObject(("created_date" :> WString(TxtDate))
                @@ ("created_time" :> WString(TxtTime))
                @@ ("last_login" :> WString(TxtStampZ))
                @@ ("username" :> WString(TxtUser))))
        @@ ("notes" :> WString(TxtHello)) @@ ("file_data" :> WString(TxtFile)))

\* The texts handed to deserialize: objects, and text that is no object.
SampleDocuments ==
    {Malformed, WNull, WArray, WBool(TRUE), WString(TxtHello), TestDocument}
        \cup {WObject("a" :> x) : x \in WireLeaves}
        \cup (NestedWire(MaxDepth + 1) \ {WObject(EmptyMap)})
        \cup {WObject(("a" :> x) @@ ("b" :> y)) : x \in NestWireLeaves, y \in NestWireLeaves}

(***************************************************************************)
(* The container as a state machine.  entries is the container's field;    *)
(* wire is the text last produced by serialize or handed to deserialize;   *)
(* op names the last call with its arguments, ret is the Option it         *)
(* returned (get, remove) and result is "Ok" or "Err" for the calls that   *)
(* return a Result.  hist is used by the round-trip runs only.             *)
(***************************************************************************)
Call(name, key, arg) == [name |-> name, key |-> key, arg |-> arg]

\* The values set is called with, and the texts deserialize is called with.
SetValues ==
    {Boolean(TRUE), Decimal([m |-> 12345678, scale |-> 4]), String(TxtNote),
     Binary(<<72, 105>>), Object("x" :> Boolean(TRUE)),
     Object(("y" :> String(TxtHello)) @@ ("z" :> Object("x" :> Boolean(FALSE))))}

CallDocuments ==
    {Malformed, WObject(("a" :> WNumber(12345678, -4)) @@ ("b" :> WString(TxtFile))),
     WObject(("a" :> WObject("x" :> WString(TxtDate))) @@ ("b" :> WNull)),
     WObject("b" :> WObject("x" :> WNumber(1, 30)))}

Init ==
    /\ entries = JSON_new
    /\ wire = NoText
    /\ op = Call("new", "", {})
    /\ ret = {}
    /\ result = "none"
    /\ hist = <<>>

New ==
    /\ entries' = JSON_new
    /\ op' = Call("new", "", {})
    /\ ret' = {}
    /\ result' = "none"
    /\ UNCHANGED <<wire, hist>>

Get(key) ==
    /\ ret' = JSON_get(entries, key)
    /\ op' = Call("get", key, {})
    /\ result' = "none"
    /\ UNCHANGED <<entries, wire, hist>>

Set(key, entry) ==
    /\ entries' = JSON_set(entries, key, entry)
    /\ op' = Call("set", key, {entry})
    /\ ret' = {}
    /\ result' = "none"
    /\ UNCHANGED <<wire, hist>>

Remove(key) ==
    /\ entries' = JSON_remove(entries, key).map
    /\ ret' = JSON_remove(entries, key).ret
    /\ op' = Call("remove", key, {})
    /\ result' = "none"
    /\ UNCHANGED <<wire, hist>>

Serialize ==
    LET r == JSON_serialize(entries)
    IN  /\ wire' = IF r.ok THEN r.val ELSE NoText
        /\ result' = IF r.ok THEN "Ok" ELSE "Err"
        /\ op' = Call("serialize", "", {})
        /\ ret' = {}
        /\ UNCHANGED <<entries, hist>>

\* let obj = JSON::deserialize(text): on Ok the program holds the new
\* container, on Err it holds no new one.
Deserialize(text) ==
    LET r == JSON_deserialize(text)
    IN  /\ entries' = IF r.ok THEN r.val ELSE entries
        /\ result' = IF r.ok THEN "Ok" ELSE "Err"
        /\ wire' = text
        /\ op' = Call("deserialize", "", {})
        /\ ret' = {}
        /\ UNCHANGED hist

Next ==
    \/ New
    \/ \E key \in Keys : Get(key)
    \/ \E key \in Keys, entry \in SetValues : Set(key, entry)
    \/ \E key \in Keys : Remove(key)
    \/ Serialize
    \/ \E text \in CallDocuments : Deserialize(text)

Spec == Init /\ [][Next]_vars

(***************************************************************************)
(* Round-trip runs: from a container built by new and set, or from a       *)
(* document, serialize and deserialize alternate, each working on what     *)
(* the other produced.  hist records the state after every call, the       *)
(* starting state first.                                                   *)
(***************************************************************************)
Snapshot(name, map, text, ok) == [op |-> name, entries |-> map, wire |-> text, ok |-> ok]

RTInit ==
    /\ \/ /\ entries \in SampleContainers
          /\ wire = NoText
          /\ op = Call("set", "", {})
       \/ /\ entries = JSON_new
          /\ wire \in SampleDocuments
          /\ op = Call("input", "", {})
    /\ ret = {}
    /\ result = "none"
    /\ hist = <<Snapshot(op.name, entries, wire, TRUE)>>

RTSerialize ==
    /\ Len(hist) < MaxSteps
    /\ op.name \in {"set", "deserialize"}
    /\ LET r == JSON_serialize(entries)
       IN  /\ wire' = IF r.ok THEN r.val ELSE NoText
           /\ result' = IF r.ok THEN "Ok" ELSE "Err"
           /\ hist' = Append(hist, Snapshot("serialize", entries, wire', r.ok))
    /\ op' = Call("serialize", "", {})
    /\ ret' = {}
    /\ UNCHANGED entries

RTDeserialize ==
    /\ Len(hist) < MaxSteps
    /\ op.name \in {"input", "serialize"}
    /\ wire # NoText
    /\ LET r == JSON_deserialize(wire)
       IN  /\ entries' = IF r.ok THEN r.val ELSE entries
           /\ result' = IF r.ok THEN "Ok" ELSE "Err"
           /\ hist' = Append(hist, Snapshot("deserialize", entries', wire, r.ok))
    /\ op' = Call("deserialize", "", {})
    /\ ret' = {}
    /\ UNCHANGED wire

RTNext == RTSerialize \/ RTDeserialize

RTSpec == RTInit /\ [][RTNext]_vars

(***************************************************************************)
(* Properties of the round-trip runs (RTSpec).                             *)
(***************************************************************************)
Steps == 1..Len(hist)

\* The i-th recorded call is a successful deserialize / serialize.
Deserialized(i) == i \in Steps /\ hist[i].op = "deserialize" /\ hist[i].ok
Serialized(i) == i \in Steps /\ hist[i].op = "serialize" /\ hist[i].ok

Unambiguous == {"Boolean", "Date", "Time", "Timestamp", "Binary"}

StringRuleVariants == {"Binary", "Date", "Time", "Timestamp", "String"}

\* C1: a container built by set that holds, under some key, a Boolean, Date,
\* Time, Timestamp or Binary value serializes to text that deserialize
\* accepts, and the container read back holds exactly that value under the
\* same key.
C1_RoundTripExact ==
    (Len(hist) >= 3 /\ hist[1].op = "set") =>
        /\ hist[2].ok
        /\ hist[3].ok
        /\ \A k \in DOMAIN hist[1].entries :
              hist[1].entries[k].t \in Unambiguous =>
                  /\ k \in DOMAIN hist[3].entries
                  /\ hist[3].entries[k] = hist[1].entries[k]

\* Every Decimal of entry, at any depth, is written in w as the wire string
\* of its decimal text.
RECURSIVE DecimalEmitted(_, _)
DecimalEmitted(entry, w) ==
    IF entry.t = "Decimal" THEN w = WString(DecimalToString(entry.v))
    ELSE IF entry.t = "Object" THEN
        /\ w.t = "object"
        /\ DOMAIN w.v = DOMAIN entry.v
        /\ \A k \in DOMAIN entry.v : DecimalEmitted(entry.v[k], w.v[k])
    ELSE TRUE

\* Where entry holds a Decimal, reread holds what the wire-string rules make
\* of its text, which is never a Decimal.
RECURSIVE DecimalReread(_, _)
DecimalReread(entry, reread) ==
    IF entry.t = "Decimal" THEN
        /\ reread.t \in StringRuleVariants
        /\ reread = ClassifyString(DecimalToString(entry.v))
    ELSE IF entry.t = "Object" THEN
        /\ reread.t = "Object"
        /\ DOMAIN reread.v = DOMAIN entry.v
        /\ \A k \in DOMAIN entry.v : DecimalReread(entry.v[k], reread.v[k])
    ELSE TRUE

\* Where entry holds a Decimal, the two texts w1 and w2 hold the same wire value.
RECURSIVE DecimalSameText(_, _, _)
DecimalSameText(entry, w1, w2) ==
    IF entry.t = "Decimal" THEN w1.t = "string" /\ w2 = w1
    ELSE IF entry.t = "Object" THEN
        /\ w1.t = "object" /\ w2.t = "object"
        /\ DOMAIN w1.v = DOMAIN entry.v /\ DOMAIN w2.v = DOMAIN entry.v
        /\ \A k \in DOMAIN entry.v : DecimalSameText(entry.v[k], w1.v[k], w2.v[k])
    ELSE TRUE

\* C2: a Decimal is always serialized as the wire string of its decimal text,
\* never as a wire number; deserializing that text classifies the field by the
\* wire-string rules, never as a Decimal; and every later serialize of the
\* run emits the same wire string for the field.
C2_DecimalTextStable ==
    \A i \in Steps :
        hist[i].op = "serialize" =>
            /\ hist[i].ok
            /\ DecimalEmitted(Object(hist[i].entries), hist[i].wire)
            /\ (i + 1 \in Steps =>
                    /\ hist[i + 1].ok
                    /\ DecimalReread(Object(hist[i].entries), Object(hist[i + 1].entries)))
            /\ \A j \in Steps :
                  (j > i /\ hist[j].op = "serialize") =>
                      DecimalSameText(Object(hist[i].entries), hist[i].wire, hist[j].wire)

\* The wire number 1234.5678 was read as a Decimal and written twice since,
\* both times as the wire string "1234.5678".
C2_Witness ==
    /\ Len(hist) >= 5
    /\ hist[1].wire = WObject("a" :> WNumber(12345678, -4))
    /\ hist[2].entries["a"] = Decimal([m |-> 12345678, scale |-> 4])
    /\ hist[3].wire = WObject("a" :> WString(TxtNumber))
    /\ hist[4].entries["a"] = String(TxtNumber)
    /\ hist[5].wire = WObject("a" :> WString(TxtNumber))

\* The value a wire string must be classified as: the first of base64, date,
\* time and RFC 3339 timestamp that matches, else the string itself.
FirstMatch(s, entry) ==
    LET b == STANDARD_decode(s)
        d == ParseDate(s)
        tm == ParseTime(s)
        ts == ParseRfc3339Utc(s)
    IN  /\ b.ok => entry = Binary(b.val)
        /\ (~b.ok /\ d.ok) => entry = Date(d.val)
        /\ (~b.ok /\ ~d.ok /\ tm.ok) => entry = Time(tm.val)
        /\ (~b.ok /\ ~d.ok /\ ~tm.ok /\ ts.ok) => entry = Timestamp(ts.val)
        /\ (~b.ok /\ ~d.ok /\ ~tm.ok /\ ~ts.ok) => entry = String(s)
        /\ (b.ok /\ d.ok) => entry.t = "Binary"
        /\ s = TxtHello => entry = String(TxtHello)
        /\ s = TxtStampOffset =>
              entry = Timestamp([date |-> [y |-> 2023, m |-> 12, d |-> 31],
                                 time |-> [h |-> 22, mi |-> 30, s |-> 0, nano |-> 500000000]])

\* Every wire string of w, at any depth, is classified in entry by FirstMatch.
RECURSIVE StringsClassified(_, _)
StringsClassified(w, entry) ==
    IF w.t = "string" THEN FirstMatch(w.v, entry)
    ELSE IF w.t = "object" THEN
        /\ entry.t = "Object"
        /\ DOMAIN entry.v = DOMAIN w.v
        /\ \A k \in DOMAIN w.v : StringsClassified(w.v[k], entry.v[k])
    ELSE TRUE

\* C3: deserialize classifies every wire string by the first rule that matches
\* in the order base64, YYYY-MM-DD, HH:MM:SS, RFC 3339 (in UTC), else String
\* with the text unchanged.
C3_PriorityOrder ==
    \A i \in Steps :
        Deserialized(i) => StringsClassified(hist[i].wire, Object(hist[i].entries))

\* The test document was read: "hello" stayed a String, the base64 text
\* became the Binary "Hello world", the date, time and timestamp texts their
\* variants.
C3_Witness ==
    /\ Deserialized(2)
    /\ hist[2].wire = TestDocument
    /\ hist[2].entries["notes"] = String(TxtHello)
    /\ hist[2].entries["file_data"] =
          Binary(<<72, 101, 108, 108, 111, 32, 119, 111, 114, 108, 100>>)
    /\ hist[2].entries["profile"].v["created_date"] = Date([y |-> 2024, m |-> 11, d |-> 2])
    /\ hist[2].entries["profile"].v["created_time"].t = "Time"
    /\ hist[2].entries["profile"].v["last_login"].t = "Timestamp"

\* w holds, at some depth, a wire null, a wire array or a wire number that
\* does not convert to Decimal.
RECURSIVE HasUnsupported(_)
HasUnsupported(w) ==
    \/ w.t \in {"null", "array"}
    \/ w.t = "number" /\ ~DecimalTryFrom(w.v).ok
    \/ w.t = "object" /\ \E k \in DOMAIN w.v : HasUnsupported(w.v[k])

\* C4: deserialize returns an error, and no container, exactly when the text
\* is no wire object or holds at any depth a wire null, a wire array or a
\* wire number that does not convert to Decimal; otherwise it returns a
\* container.
C4_AllOrNothing ==
    \A i \in Steps :
        hist[i].op = "deserialize" =>
            /\ hist[i].ok <=> (hist[i].wire.t = "object" /\ ~HasUnsupported(hist[i].wire))
            /\ ~hist[i].ok => hist[i].entries = hist[i - 1].entries

\* A wire null two levels down made the whole call fail.
C4_Witness ==
    /\ Len(hist) >= 2
    /\ hist[1].wire = WObject(("a" :> WObject("b" :> WNull)) @@ ("b" :> WBool(FALSE)))
    /\ hist[2].op = "deserialize"
    /\ ~hist[2].ok
    /\ hist[2].entries = EmptyMap

\* entry has the variant rule 1 to 4 gives w, and the same keys at every level.
RECURSIVE SameMembers(_, _)
SameMembers(w, entry) ==
    \/ w.t = "bool" /\ entry.t = "Boolean"
    \/ w.t = "number" /\ entry.t = "Decimal"
    \/ w.t = "string" /\ entry.t \in StringRuleVariants
    \/ /\ w.t = "object"
       /\ entry.t = "Object"
       /\ DOMAIN entry.v = DOMAIN w.v
       /\ \A k \in DOMAIN w.v : SameMembers(w.v[k], entry.v[k])

\* C7: when deserialize succeeds, the keys of the result are exactly the keys
\* of the wire object, at the top level and in every nested Object, and each
\* value has the variant of its wire kind.
C7_NoMemberDropped ==
    \A i \in Steps :
        Deserialized(i) => SameMembers(hist[i].wire, Object(hist[i].entries))

\* The test document was read with all five members and the four nested ones.
C7_Witness ==
    /\ Deserialized(2)
    /\ hist[2].wire = TestDocument
    /\ DOMAIN hist[2].entries = {"is_active", "balance", "profile", "notes", "file_data"}
    /\ DOMAIN hist[2].entries["profile"].v =
          {"created_date", "created_time", "last_login", "username"}
    /\ hist[2].entries["balance"].t = "Decimal"

Max(a, b) == IF a > b THEN a ELSE b

RECURSIVE MaxOver(_, _)
MaxOver(f, keys) ==
    IF keys = {} THEN 0
    ELSE LET k == CHOOSE x \in keys : TRUE
         IN  Max(f[k], MaxOver(f, keys \ {k}))

\* Levels of Objects in a value: 0 for a leaf.
RECURSIVE Depth(_)
Depth(entry) ==
    IF entry.t # "Object" THEN 0
    ELSE 1 + MaxOver([k \in DOMAIN entry.v |-> Depth(entry.v[k])], DOMAIN entry.v)

\* The two values nest alike: Objects in the same places with the same keys.
RECURSIVE SameShape(_, _)
SameShape(e1, e2) ==
    /\ (e1.t = "Object") <=> (e2.t = "Object")
    /\ e1.t = "Object" =>
          /\ DOMAIN e1.v = DOMAIN e2.v
          /\ \A k \in DOMAIN e1.v : SameShape(e1.v[k], e2.v[k])

\* C8: a container deserialized from a document, serialized and deserialized
\* again has the same nesting depth and the same keys at every level.
C8_NestingPreserved ==
    \A i \in Steps :
        (Deserialized(i) /\ i + 2 \in Steps) =>
            /\ hist[i + 1].ok
            /\ hist[i + 2].ok
            /\ Depth(Object(hist[i + 2].entries)) = Depth(Object(hist[i].entries))
            /\ SameShape(Object(hist[i].entries), Object(hist[i + 2].entries))

\* A document nested three deep was read, written and read again.
C8_Witness ==
    /\ Deserialized(2)
    /\ Deserialized(4)
    /\ hist[1].wire = WObject("a" :> WObject(("a" :> WObject("b" :> WString(TxtWord)))
                                             @@ ("b" :> WBool(FALSE))))
    /\ Depth(Object(hist[2].entries)) = 3
    /\ Depth(Object(hist[4].entries)) = 3

\* w is the encoding of entry's shape: the same keys at every level, a wire
\* boolean for a Boolean and a wire string for every other leaf.
RECURSIVE Encodes(_, _)
Encodes(w, entry) ==
    IF entry.t = "Boolean" THEN w = WBool(entry.v)
    ELSE IF entry.t = "Object" THEN
        /\ w.t = "object"
        /\ DOMAIN w.v = DOMAIN entry.v
        /\ \A k \in DOMAIN entry.v : Encodes(w.v[k], entry.v[k])
    ELSE w.t = "string"

RemoveStep ==
    op'.name = "remove" =>
        /\ ret' = Lookup(entries, op'.key)
        /\ (op.name = "get" /\ op.key = op'.key) => ret' = ret
        /\ op'.key \notin DOMAIN entries'
        /\ DOMAIN entries' = DOMAIN entries \ {op'.key}
        /\ \A k \in DOMAIN entries' : entries'[k] = entries[k]
        /\ op'.key \notin DOMAIN entries => (ret' = {} /\ entries' = entries)

\* get reports absence for a key the container does not hold, and changes
\* nothing.
GetStep ==
    op'.name = "get" =>
        /\ entries' = entries
        /\ op'.key \notin DOMAIN entries => ret' = {}
        /\ op'.key \in DOMAIN entries => ret' = {entries[op'.key]}

\* A key that is absent stays absent until set is called with it (or the
\* program takes a freshly deserialized container).
AbsentUntilSet ==
    \A k \in Keys :
        (k \notin DOMAIN entries /\ k \in DOMAIN entries') =>
            \/ op'.name = "set" /\ op'.key = k
            \/ op'.name = "deserialize"

\* C5: remove(key) returns exactly what get(key) returned just before and
\* leaves the key absent until the next set(key, _); on an absent key it
\* reports absence and changes nothing; all other keys keep their values.
C5_RemoveReturnsPrior == [][RemoveStep /\ GetStep /\ AbsentUntilSet]_vars

\* A present key was removed: its value was returned, the key is gone and
\* the other key is still there.
C5_Witness ==
    /\ op = Call("remove", "a", {})
    /\ ret = {Binary(<<72, 105>>)}
    /\ "a" \notin DOMAIN entries
    /\ "b" \in DOMAIN entries
    /\ entries["b"] = Object("x" :> Boolean(TRUE))

\* C6: after set(key, value), get(key) returns exactly value, whether or not
\* the key was present and whatever it held (an Object is replaced whole, not
\* merged), and every other key is as it was.
C6_SetOverwrites ==
    [][op'.name = "set" =>
        /\ Lookup(entries', op'.key) = op'.arg
        /\ DOMAIN entries' = DOMAIN entries \cup {op'.key}
        /\ \A k \in DOMAIN entries \ {op'.key} : entries'[k] = entries[k]]_vars

\* An Object was set over a key while the other key holds another Object.
C6_Witness ==
    /\ op = Call("set", "a", {Object("x" :> Boolean(TRUE))})
    /\ entries["a"] = Object("x" :> Boolean(TRUE))
    /\ "b" \in DOMAIN entries
    /\ entries["b"].t = "Object"
    /\ "y" \in DOMAIN entries["b"].v

====
